---- MODULE Spec2Model ----
(***************************************************************************)
(* Model of usepa_cti/cti_window_processor.py, function find_windows:      *)
(* gap squeezing of the time axis, cumulative trapezoidal integration of   *)
(* the window channel and the two-index window search.                     *)
(*                                                                         *)
(* Samples are integers.  Every cumulative integral is kept multiplied by  *)
(* Twice (the trapezoid rule divides by 2), so all values stay integers    *)
(* and every comparison of the code is exact: the code's                   *)
(*   integrated_window[e] < integrated_window[s] + window_size             *)
(* is   integrated_window[e] < integrated_window[s] + Twice * window_size  *)
(* here.  Indices are 0-based as in the code; At(a, i) reads a[i].         *)
(***************************************************************************)
EXTENDS Integers, Sequences, FiniteSets

\* ---- bounds of the model ------------------------------------------------
MaxN == 4          \* longest series
MaxTime == 3       \* largest raw timestamp
MaxWeight == 1     \* window channel values are -1..MaxWeight
MaxSize == 2       \* window_size is  ..MaxSize
MaxStep == 3       \* window_step is  ..MaxStep
MaxDt == 2         \* max_dt is       ..MaxDt
MaxTileN == 7      \* longest series of the unit-spaced family
MaxTileK == 3      \* largest window_size = window_step of that family
MaxGapN == 5       \* longest series of the family with time gaps
MaxFirst == 2      \* largest first timestamp of that family
MaxGap == 8        \* largest gap between two timestamps of that family
MaxChanN == 4      \* longest series of the calls with further channels
MaxChan == 1       \* integrate channel values are -1 and 1..MaxChan
\* calls of find_windows on one data object
MaxCalls == 2

\* samples of a series with NaN in the window channel
MaxNanN == 4

\* characters of a channel name
MaxNameLen == 3

\* files of a batch
MaxFiles == 2

\* power ratings in the file names
MaxRating == 2

\* samples of a file
MaxFileLen == 3

\* samples of a file whose time column is prepared
MaxPrepN == 4

\* the first sample is at most MaxBefore seconds before midnight
MaxBefore == 2

\* seconds between two samples of the raw time column
MaxDelta == 2

\* cutpoints, and their largest value in units of CutUnit
MaxCuts == 2

MaxCut == 3

\* windows to bin, and their largest normalised CO2 rate
MaxBinWindows == 2

MaxNorm == 4

MaxScale == 2      \* multipliers of scaling_dict are 2..MaxScale

\* scale of the stored integrals (trapezoid rule without the division)
Twice == 2

\* rows the table may hold in the model; above every series length, so
\* that it only stops the runs whose table grows without end
MaxWindows == MaxN + 2

VARIABLES
    pc,                 \* position in find_windows
    real_time,          \* data[time_chan]
    window_chan,        \* data[window_chan]
    window_size,        \* parameter
    window_step,        \* parameter
    max_dt,             \* parameter
    squeeze_time,       \* local squeeze_time
    integrated_window,  \* local integrated_window, times Twice
    window_start_idx,   \* local
    window_end_idx,     \* local
    window_start_time,  \* local: NegInf or Finite(t)
    windows,            \* window_data: one record per appended row
    incs,               \* number of executions of line 110
    data,               \* the other columns of the caller's data frame
    integrate_chans,    \* parameter: list of column names
    data_chans,         \* parameter: list of column names
    scaling_dict,       \* parameter: column name -> multiplier
    integrated_data,    \* local integrated_data, values times Twice
    chan_out,           \* local chan_out: channel name -> output name
    nan_at,             \* sample indices where data[window_chan] is NaN
    returned,           \* the tables returned by the calls before this one
    batch_pc,           \* position in the batch loop of cti_process_TBW
    file_list,          \* options.file_list
    file_idx,           \* number of files the batch loop is done with
    options,            \* the options object shared by all files
    file_options,       \* local options of the tbw_processor call
    results_df,         \* results_df of the batch loop
    prep_pc,            \* position in prep_calcs_dataframe
    time_base,          \* data_profile.time_base
    data_rate_Hz,       \* data_source_profile.data_rate_Hz
    raw_time,           \* source_dataframe[data_profile.time_signal]
    time,               \* local time, times PrepScale
    prep_t,             \* loop variable t of the wrap loop
    time_wrap,          \* local time_wrap, times PrepScale
    time_secs,          \* calcs_dataframe['time_secs'], times PrepScale
    bin_pc,             \* position in the binning of tbw_processor
    hp_cutpoints_frac,  \* options.hp_cutpoints_frac, in units of CutUnit
    norms,              \* 'Tailpipe CO2 rate norm' of the windows, same unit
    bins,               \* local bins: bin name -> set of window numbers
    previous_bin_frac,  \* local
    cut_idx,            \* number of cutpoints the loop is done with
    bin_results         \* the window counts of bin_results

vars == <<pc, real_time, window_chan, window_size, window_step, max_dt,
          squeeze_time, integrated_window, window_start_idx, window_end_idx,
          window_start_time, windows, incs, data, integrate_chans,
          data_chans, scaling_dict, integrated_data, chan_out, nan_at,
          returned, batch_pc, file_list, file_idx, options, file_options,
          results_df, prep_pc, time_base, data_rate_Hz, raw_time, time,
          prep_t, time_wrap, time_secs, bin_pc, hp_cutpoints_frac, norms,
          bins, previous_bin_frac, cut_idx, bin_results>>

\* the state of find_windows and of its caller's data
fwVars == <<pc, real_time, window_chan, window_size, window_step, max_dt,
            squeeze_time, integrated_window, window_start_idx,
            window_end_idx, window_start_time, windows, incs, data,
            integrate_chans, data_chans, scaling_dict, integrated_data,
            chan_out, nan_at, returned>>

\* the state of the batch loop
batchVars == <<batch_pc, file_list, file_idx, options, file_options,
               results_df>>

\* the state of prep_calcs_dataframe
prepVars == <<prep_pc, time_base, data_rate_Hz, raw_time, time, prep_t,
              time_wrap, time_secs>>

\* the state of the binning
binVars == <<bin_pc, hp_cutpoints_frac, norms, bins, previous_bin_frac,
             cut_idx, bin_results>>

\* the state outside find_windows
otherVars == <<batchVars, prepVars, binVars>>

\* ---- helpers --------------------------------------------------------------
Min(a, b) == IF a <= b THEN a ELSE b

Max(a, b) == IF a >= b THEN a ELSE b

At(a, i) == a[i + 1]

n == Len(real_time)

\* variant: the anchor starts at time 0
NegInfZero == [inf |-> FALSE, t |-> 0]

\* -np.Inf and finite floats
NegInf == [inf |-> TRUE, t |-> 0]

Finite(x) == [inf |-> FALSE, t |-> x]

\* variant: the step is not added to the anchor
PlusStepNone(x, step) == x

\* window_start_time + window_step  (-inf + x = -inf)
PlusStep(x, step) == IF x.inf THEN x ELSE Finite(x.t + step)

\* variant: without prepend=0 the first step is 0
diffNoPrepend(a) == [i \in 1..Len(a) |-> IF i = 1 THEN 0 ELSE a[i] - a[i - 1]]

\* numpy.diff(a, prepend=0)
diff(a) == [i \in 1..Len(a) |-> IF i = 1 THEN a[1] - 0 ELSE a[i] - a[i - 1]]

\* variant: the steps are not capped
minimumNone(m, a) == a

\* numpy.minimum(m, a)
minimum(m, a) == [i \in 1..Len(a) |-> Min(m, a[i])]

\* variant: no clipping of the window channel
maximumNone(m, a) == a

\* numpy.maximum(m, a)
maximum(m, a) == [i \in 1..Len(a) |-> Max(m, a[i])]

RECURSIVE SumTo(_, _)
SumTo(a, i) == IF i = 0 THEN 0 ELSE SumTo(a, i - 1) + a[i]

\* numpy.cumsum(a)
cumsum(a) == [i \in 1..Len(a) |-> SumTo(a, i)]

\* Twice * scipy.integrate.cumtrapz(y, x, initial=0), for Len(y) >= 1
RECURSIVE TrapTo(_, _, _)
TrapTo(y, x, i) ==
    IF i = 1 THEN 0
    ELSE TrapTo(y, x, i - 1) + (y[i] + y[i - 1]) * (x[i] - x[i - 1])

cumtrapz(y, x) == [i \in 1..Len(y) |-> TrapTo(y, x, i)]

\* variant: side='right', the first index whose element is > v
searchsortedRight(a, v) ==
    IF v.inf THEN 0
    ELSE Cardinality({i \in 1..Len(a) : a[i] <= v.t})

\* numpy.searchsorted(a, v, side='left') on a sorted array: the first
\* 0-based index whose element is >= v, Len(a) when there is none
searchsorted(a, v) ==
    IF v.inf THEN 0
    ELSE Cardinality({i \in 1..Len(a) : a[i] < v.t})

Range(f) == {f[x] : x \in DOMAIN f}

\* a data frame without columns, a dict without keys
NoColumns == [k \in {} |-> <<>>]

\* Column names are sequences of characters, so that the output names of
\* lines 74-79 can be computed from them.
\* the names of the time column and of the window column
TimeChan == <<"t">>

WindowChan == <<"w">>

\* the integrate channel and the statistic channel of the calls below
ChanC == <<"c">>

ChanD == <<"d">>

\* line 60: the column 'integrated_window'
IntegratedWindowChan ==
    <<"i", "n", "t", "e", "g", "r", "a", "t", "e", "d", "_",
      "w", "i", "n", "d", "o", "w">>

\* name.__contains__('/s')
ContainsPerS(name) ==
    \E i \in 1..(Len(name) - 1) : name[i] = "/" /\ name[i + 1] = "s"

\* name.replace('/s', ''): every occurrence found from the left is removed
RECURSIVE RemovePerS(_)
RemovePerS(name) ==
    IF Len(name) < 2 THEN name
    ELSE IF name[1] = "/" /\ name[2] = "s"
         THEN RemovePerS(SubSeq(name, 3, Len(name)))
         ELSE <<name[1]>> \o RemovePerS(Tail(name))

\* variant: only the first '/s' is removed
RECURSIVE RemoveFirstPerS(_)
RemoveFirstPerS(name) ==
    IF Len(name) < 2 THEN name
    ELSE IF name[1] = "/" /\ name[2] = "s"
         THEN SubSeq(name, 3, Len(name))
         ELSE <<name[1]>> \o RemoveFirstPerS(Tail(name))

\* lines 74-79: the output column name of an integrate channel
OutName(name) ==
    IF ContainsPerS(name) THEN RemovePerS(name)
    ELSE name \o <<"-", "s", "e", "c">>

\* line 52: data[key] * scaling_dict[key]; a column that is no key is kept
Scaled(col, key) ==
    IF key \in DOMAIN scaling_dict
    THEN [i \in 1..Len(col) |-> col[i] * scaling_dict[key]]
    ELSE col

\* a[lo:hi] of Python for 0 <= lo
Slice(a, lo, hi) == [i \in 1..Max(0, Min(hi, Len(a)) - lo) |-> a[lo + i]]

\* floats of the statistics columns: a fraction num/den, or not-a-number
NaN == [nan |-> TRUE, num |-> 0, den |-> 1]

Num(x) == [nan |-> FALSE, num |-> x, den |-> 1]

Frac(x, y) == [nan |-> FALSE, num |-> x, den |-> y]

RECURSIVE SeqSum(_)
SeqSum(v) == IF v = <<>> THEN 0 ELSE v[1] + SeqSum(Tail(v))

RECURSIVE SeqSumSq(_)
SeqSumSq(v) == IF v = <<>> THEN 0 ELSE v[1] * v[1] + SeqSumSq(Tail(v))

\* pandas Series.min()
min(v) ==
    IF v = <<>> THEN NaN
    ELSE Num(CHOOSE x \in Range(v) : \A y \in Range(v) : x <= y)

\* pandas Series.max()
max(v) ==
    IF v = <<>> THEN NaN
    ELSE Num(CHOOSE x \in Range(v) : \A y \in Range(v) : x >= y)

\* pandas Series.mean()
mean(v) == IF v = <<>> THEN NaN ELSE Frac(SeqSum(v), Len(v))

\* variant: population standard deviation (ddof=0)
stdPopulation(v) ==
    IF v = <<>> THEN NaN
    ELSE Frac(Len(v) * SeqSumSq(v) - SeqSum(v) * SeqSum(v), Len(v) * Len(v))

\* pandas Series.std() (ddof=1), kept as its square
\*   sum((x - mean)^2) / (len - 1)
\*     = (len * sum(x^2) - sum(x)^2) / (len * (len - 1));
\* not-a-number for fewer than 2 values
std(v) ==
    IF Len(v) <= 1 THEN NaN
    ELSE Frac(Len(v) * SeqSumSq(v) - SeqSum(v) * SeqSum(v),
              Len(v) * (Len(v) - 1))

\* ---- options of a file ----------------------------------------------------
\* A data profile is [from_name, units, rating]: from_name says that
\* engine_power_rating_hp is 'filename_7_3', rating is the power rating in
\* the profile's units (the rating in the other unit is a fixed multiple of
\* it).  options.ftp_co2_gphphr is [kind, v]: the empty string, a text to
\* evaluate or a number.  A file is [rating, hhd, work, len]: the number
\* at filename[7:10], whether the name holds 'HHD', the sign of the cycle
\* work and the number of samples.
NoOptions ==
    [data_profile |-> [from_name |-> FALSE, units |-> "HP", rating |-> 0],
     ftp_co2_gphphr |-> [kind |-> "empty", v |-> 0],
     window_step_secs |-> 0]

Number(x) == [kind |-> "number", v |-> x]

\* cti_process_TBW.py lines 66-75: FTP CO2 g/hp-hr
FtpHHD == 555

FtpOther == 576

FtpDyno == 555

\* cti_data_source_profile.py lines 148-165
get_power_rating(profile, file) ==
    IF profile.from_name
    THEN [profile EXCEPT !.from_name = FALSE, !.rating = file.rating]
    ELSE profile

\* cti_process_TBW.py lines 61-76: the options the file is processed with
TbwOptions(shared, file) ==
    IF shared.data_profile.from_name
    THEN [shared EXCEPT
             !.data_profile = get_power_rating(@, file),
             !.ftp_co2_gphphr =
                 IF @.kind = "empty"
                 THEN Number(IF file.hhd THEN FtpHHD ELSE FtpOther)
                 ELSE Number(@.v)]
    ELSE [shared EXCEPT !.ftp_co2_gphphr = Number(FtpDyno)]

\* variant: the options are changed in the shared object, without a copy
SharedAfterAliased(shared, file) == TbwOptions(shared, file)

\* cti_process_TBW.py lines 61-76: the shared object after the call:
\* line 62 works on a deep copy, line 74 on the object itself
SharedAfter(shared, file) ==
    IF shared.data_profile.from_name
    THEN shared
    ELSE TbwOptions(shared, file)

\* no batch is running
BatchIdle ==
    /\ batch_pc = "idle"
    /\ file_list = <<>>
    /\ file_idx = 0
    /\ options = NoOptions
    /\ file_options = NoOptions
    /\ results_df = <<>>

\* prep_calcs_dataframe is not running
PrepIdle ==
    /\ prep_pc = "idle"
    /\ time_base = "base1"
    /\ data_rate_Hz = 1
    /\ raw_time = <<>>
    /\ time = <<>>
    /\ prep_t = 0
    /\ time_wrap = 0
    /\ time_secs = <<>>

\* no windows are being binned
BinIdle ==
    /\ bin_pc = "idle"
    /\ hp_cutpoints_frac = <<>>
    /\ norms = <<>>
    /\ bins = NoColumns
    /\ previous_bin_frac = 0
    /\ cut_idx = 0
    /\ bin_results = NoColumns

\* the state outside find_windows while only find_windows runs
OthersIdle == BatchIdle /\ PrepIdle /\ BinIdle

\* ---- inputs ---------------------------------------------------------------
\* non-decreasing timestamp sequences of length k
SortedTimes(k) ==
    {t \in [1..k -> 0..MaxTime] : \A i \in 1..(k - 1) : t[i] <= t[i + 1]}

Weights(k) == [1..k -> (-1)..MaxWeight]

\* state at the call of find_windows, before line 46: the time column t,
\* the window column w, the other columns cols, the two channel lists and
\* the scaling dict
Loaded(t, w, cols, ichans, dchans, scaling, size, step, dt) ==
    /\ real_time = t
    /\ window_chan = w
    /\ data = cols
    /\ integrate_chans = ichans
    /\ data_chans = dchans
    /\ scaling_dict = scaling
    /\ window_size = size
    /\ window_step = step
    /\ max_dt = dt
    /\ squeeze_time = <<>>
    /\ integrated_window = <<>>
    /\ integrated_data = NoColumns
    /\ chan_out = NoColumns
    /\ window_start_idx = 0
    /\ window_end_idx = 0
    /\ window_start_time = NegInf
    /\ windows = <<>>
    /\ incs = 0
    /\ returned = <<>>

FirstCall(t, w, cols, ichans, dchans, scaling, size, step, dt) ==
    /\ pc = "call"
    /\ Loaded(t, w, cols, ichans, dchans, scaling, size, step, dt)

\* find_windows is not running
FwIdle ==
    /\ pc = "idle"
    /\ Loaded(<<>>, <<>>, NoColumns, <<>>, <<>>, NoColumns, 1, 1, 1)
    /\ nan_at = {}

\* a call on a window column of numbers, nothing else going on
AtCallData(t, w, cols, ichans, dchans, scaling, size, step, dt) ==
    /\ FirstCall(t, w, cols, ichans, dchans, scaling, size, step, dt)
    /\ nan_at = {}
    /\ OthersIdle

\* a call without integrate channels, statistic channels and scaling
AtCall(t, w, size, step, dt) ==
    AtCallData(t, w, NoColumns, <<>>, <<>>, NoColumns, size, step, dt)

\* calls that respect the parameter contract (all three parameters > 0)
Init ==
    \E k \in 0..MaxN :
      \E t \in SortedTimes(k), w \in Weights(k) :
        \E size \in 1..MaxSize, step \in 1..MaxStep, dt \in 1..MaxDt :
          AtCall(t, w, size, step, dt)

\* ---- find_windows ---------------------------------------------------------
\* variant: integrate channels clipped like the window channel
IntegrateChanClipped(v, sq) == cumtrapz(maximum(0, v), sq)

\* line 73: integral of an integrate channel, positive and negative values
IntegrateChan(v, sq) == cumtrapz(v, sq)

\* lines 46-100: scale the columns named by scaling_dict in place, squeeze
\* the time axis, integrate the window channel and store it as a column of
\* data, integrate the integrate channels, initialise the search.
\* cumtrapz raises ValueError on an empty series.
Setup ==
    /\ pc = "call"
    /\ real_time' = Scaled(real_time, TimeChan)
    /\ window_chan' = Scaled(window_chan, WindowChan)
    /\ IF n = 0
       THEN /\ pc' = "error"
            /\ data' = [k \in DOMAIN data |-> Scaled(data[k], k)]
            /\ UNCHANGED <<squeeze_time, integrated_window, integrated_data,
                           chan_out>>
       ELSE /\ squeeze_time' = cumsum(minimum(max_dt, diff(real_time')))
            /\ integrated_window' =
                   cumtrapz(maximum(0, window_chan'), squeeze_time')
            /\ data' = [k \in DOMAIN data \cup {IntegratedWindowChan} |->
                          IF k = IntegratedWindowChan THEN integrated_window'
                          ELSE Scaled(data[k], k)]
            /\ integrated_data' =
                   [c \in Range(integrate_chans) |->
                       IntegrateChan(data'[c], squeeze_time')]
            /\ chan_out' =
                   [k \in Range(data_chans) \cup Range(integrate_chans) |->
                       IF k \in Range(integrate_chans) THEN OutName(k)
                       ELSE k]
            /\ pc' = "while"
    /\ window_start_idx' = 0
    /\ window_end_idx' = 0
    /\ window_start_time' = NegInf
    /\ windows' = <<>>
    /\ incs' = 0
    /\ UNCHANGED <<window_size, window_step, max_dt, integrate_chans,
                   data_chans, scaling_dict, nan_at, returned>>
    /\ UNCHANGED otherVars

\* integrated_window[i] is NaN: a NaN sample of the window channel makes
\* the trapezoids on both of its sides NaN, and cumtrapz sums from the left
IwNaN(i) == i >= 1 /\ \E j \in nan_at : j <= i

\* variant: the loop goes on after the last index was reached
LoopCondLe(s, e, len) == s <= e /\ e <= len - 1

\* line 103: the test of the search loop
LoopCond(s, e, len) == s <= e /\ e < len - 1

\* line 109: the test of the advance loop (reads integrated_window[s]);
\* a comparison with NaN is False
AdvanceCond(iw, s, e, len, size) ==
    /\ e < len - 1
    /\ ~IwNaN(e) /\ ~IwNaN(s)
    /\ At(iw, e) < At(iw, s) + Twice * size

\* variant: a window that ends at the last sample below the size is dropped
ValidWindowNoTail(iw, s, e, len, size) ==
    ~IwNaN(e) /\ ~IwNaN(s) /\ At(iw, e) >= At(iw, s) + Twice * size

\* lines 117-118: the window is valid
ValidWindow(iw, s, e, len, size) ==
    \/ ~IwNaN(e) /\ ~IwNaN(s) /\ At(iw, e) >= At(iw, s) + Twice * size
    \/ e = len - 1

\* variant: the end sample is left out of the statistics
WindowSliceOpen(col, s, e) == Slice(col, s, e)

\* lines 131-134: data[signal_name][window_start_idx:window_end_idx + 1]
WindowSlice(col, s, e) == Slice(col, s, e + 1)

\* lines 131-134: the four statistics of a statistic channel
WindowStats(col, s, e) ==
    [MIN |-> min(WindowSlice(col, s, e)),
     MAX |-> max(WindowSlice(col, s, e)),
     AVG |-> mean(WindowSlice(col, s, e)),
     SD |-> std(WindowSlice(col, s, e))]

\* lines 119-134: the row appended for the window s..e; start_idx and
\* end_idx are kept with the row to name the samples the row was made from,
\* totals and stats are keyed by the source channel; size_nan says that
\* window_size is NaN
WindowRow(s, e) ==
    [start_idx |-> s,
     end_idx |-> e,
     start_time |-> At(real_time, s),
     end_time |-> At(real_time, e),
     duration |-> At(real_time, e) - At(real_time, s),
     window_size |-> At(integrated_window, e) - At(integrated_window, s),
     size_nan |-> IwNaN(e) \/ IwNaN(s),
     totals |-> [c \in Range(integrate_chans) |->
                    At(integrated_data[c], e) - At(integrated_data[c], s)],
     stats |-> [d \in Range(data_chans) |-> WindowStats(data[d], s, e)]]

\* lines 93-94, 127-128: the number of values appended per window to the
\* list window_data[key]: one for every integrate channel named key
ColumnLoad(key) ==
    Cardinality({i \in 1..Len(integrate_chans) :
                    chan_out[integrate_chans[i]] = key})

\* lines 137-139: every list has one value per window, as the DataFrame
\* needs it (a list of another length raises ValueError)
TableFits ==
    \/ windows = <<>>
    \/ \A i \in 1..Len(integrate_chans) :
           ColumnLoad(chan_out[integrate_chans[i]]) = 1

\* lines 93-94: the columns of the table that hold integrals
OutColumns == {chan_out[integrate_chans[i]] : i \in 1..Len(integrate_chans)}

\* line 103, and lines 136-141 when the loop ends
LoopTest ==
    /\ pc = "while"
    /\ pc' = IF LoopCond(window_start_idx, window_end_idx, n)
             THEN "search"
             ELSE IF TableFits THEN "done" ELSE "error"
    /\ UNCHANGED <<data, integrate_chans, data_chans, scaling_dict,
                   integrated_data, chan_out, nan_at, returned>>
    /\ UNCHANGED otherVars
    /\ UNCHANGED <<real_time, window_chan, window_size, window_step, max_dt,
                   squeeze_time, integrated_window, window_start_idx,
                   window_end_idx, window_start_time, windows, incs>>

\* variant: the end index is searched again from the new start index
FindStartRescan ==
    /\ pc = "search"
    /\ window_start_idx' =
           searchsorted(real_time, PlusStep(window_start_time, window_step))
    /\ window_end_idx' = Min(window_start_idx', Max(n - 1, 0))
    /\ pc' = "advance"
    /\ UNCHANGED <<data, integrate_chans, data_chans, scaling_dict,
                   integrated_data, chan_out, nan_at, returned>>
    /\ UNCHANGED otherVars
    /\ UNCHANGED <<real_time, window_chan, window_size, window_step, max_dt,
                   squeeze_time, integrated_window,
                   window_start_time, windows, incs>>

\* line 106
FindStart ==
    /\ pc = "search"
    /\ window_start_idx' =
           searchsorted(real_time, PlusStep(window_start_time, window_step))
    /\ pc' = "advance"
    /\ UNCHANGED <<data, integrate_chans, data_chans, scaling_dict,
                   integrated_data, chan_out, nan_at, returned>>
    /\ UNCHANGED otherVars
    /\ UNCHANGED <<real_time, window_chan, window_size, window_step, max_dt,
                   squeeze_time, integrated_window, window_end_idx,
                   window_start_time, windows, incs>>

\* lines 109-110: one test of the advance loop and, when it holds, one
\* increment.  integrated_window[window_start_idx] raises IndexError when
\* searchsorted returned len(real_time).
AdvanceEnd ==
    /\ pc = "advance"
    /\ IF window_end_idx < n - 1 /\ window_start_idx > n - 1
       THEN /\ pc' = "error"
            /\ UNCHANGED <<window_end_idx, incs>>
       ELSE IF AdvanceCond(integrated_window, window_start_idx,
                           window_end_idx, n, window_size)
       THEN /\ window_end_idx' = window_end_idx + 1
            /\ incs' = incs + 1
            /\ pc' = "advance"
       ELSE /\ pc' = "check"
            /\ UNCHANGED <<window_end_idx, incs>>
    /\ UNCHANGED <<data, integrate_chans, data_chans, scaling_dict,
                   integrated_data, chan_out, nan_at, returned>>
    /\ UNCHANGED otherVars
    /\ UNCHANGED <<real_time, window_chan, window_size, window_step, max_dt,
                   squeeze_time, integrated_window, window_start_idx,
                   window_start_time, windows>>

\* line 131: a statistic channel that is not a column of data
MissingStat == \E i \in 1..Len(data_chans) : data_chans[i] \notin DOMAIN data

\* lines 117-134: append the row of a valid window and move the anchor;
\* data[signal_name] raises KeyError for a name that is not a column
Accept ==
    /\ pc = "check"
    /\ Len(windows) < MaxWindows
    /\ IF window_start_idx > n - 1
       THEN /\ pc' = "error"
            /\ UNCHANGED <<window_start_time, windows>>
       ELSE IF ValidWindow(integrated_window, window_start_idx,
                           window_end_idx, n, window_size)
       THEN IF MissingStat
       THEN /\ pc' = "error"
            /\ window_start_time' = Finite(At(real_time, window_start_idx))
            /\ UNCHANGED windows
       ELSE /\ window_start_time' = Finite(At(real_time, window_start_idx))
            /\ windows' =
                   Append(windows, WindowRow(window_start_idx, window_end_idx))
            /\ pc' = "while"
       ELSE /\ pc' = "while"
            /\ UNCHANGED <<window_start_time, windows>>
    /\ UNCHANGED <<data, integrate_chans, data_chans, scaling_dict,
                   integrated_data, chan_out, nan_at, returned>>
    /\ UNCHANGED otherVars
    /\ UNCHANGED <<real_time, window_chan, window_size, window_step, max_dt,
                   squeeze_time, integrated_window, window_start_idx,
                   window_end_idx, incs>>

Next == Setup \/ LoopTest \/ FindStart \/ AdvanceEnd \/ Accept

\* the caller keeps the returned table and calls find_windows again with
\* the same data object and the same parameters
CallAgain ==
    /\ pc = "done"
    /\ Len(returned) < MaxCalls - 1
    /\ returned' = Append(returned, windows)
    /\ pc' = "call"
    /\ UNCHANGED <<real_time, window_chan, window_size, window_step, max_dt,
                   squeeze_time, integrated_window, window_start_idx,
                   window_end_idx, window_start_time, windows, incs, data,
                   integrate_chans, data_chans, scaling_dict,
                   integrated_data, chan_out, nan_at>>
    /\ UNCHANGED otherVars

NextRepeat == Next \/ CallAgain

\* ---- the batch loop of cti_process_TBW ------------------------------------
\* cti_process_TBW.py line 540 and tbw_processor lines 47-172: the options
\* of the file, the test of the cycle work (a return without a value at
\* lines 146-152, and results_df.append leaves a missing value out), and
\* the call of find_windows on the window channel 'unity' with a window of
\* one second and the default max_dt; the samples of a file are one second
\* apart.  The channels integrated along the way are left out.
StartFile ==
    /\ batch_pc = "next"
    /\ file_idx < Len(file_list)
    /\ LET file == file_list[file_idx + 1] IN
         /\ file_options' = TbwOptions(options, file)
         /\ options' = SharedAfter(options, file)
         /\ IF file.work # "ok"
            THEN /\ file_idx' = file_idx + 1
                 /\ batch_pc' = "next"
                 /\ UNCHANGED <<pc, real_time, window_chan, window_size,
                                window_step>>
            ELSE /\ batch_pc' = "running"
                 /\ pc' = "call"
                 /\ real_time' = [i \in 1..file.len |-> i - 1]
                 /\ window_chan' = [i \in 1..file.len |-> 1]
                 /\ window_size' = 1
                 /\ window_step' = file_options'.window_step_secs
                 /\ UNCHANGED file_idx
    /\ UNCHANGED <<file_list, results_df>>
    /\ UNCHANGED <<max_dt, squeeze_time, integrated_window, window_start_idx,
                   window_end_idx, window_start_time, windows, incs, data,
                   integrate_chans, data_chans, scaling_dict,
                   integrated_data, chan_out, nan_at, returned>>
    /\ UNCHANGED <<prepVars, binVars>>

\* cti_process_TBW.py lines 540-541: tbw_processor returned its row, which
\* is appended to results_df
FinishFile ==
    /\ batch_pc = "running"
    /\ pc = "done"
    /\ results_df' = Append(results_df, [file |-> file_idx + 1,
                                         window_count |-> Len(windows)])
    /\ file_idx' = file_idx + 1
    /\ batch_pc' = "next"
    /\ pc' = "idle"
    /\ UNCHANGED <<file_list, options, file_options>>
    /\ UNCHANGED <<real_time, window_chan, window_size, window_step, max_dt,
                   squeeze_time, integrated_window, window_start_idx,
                   window_end_idx, window_start_time, windows, incs, data,
                   integrate_chans, data_chans, scaling_dict,
                   integrated_data, chan_out, nan_at, returned>>
    /\ UNCHANGED <<prepVars, binVars>>

\* cti_process_TBW.py lines 539-541: nothing catches the exception of
\* find_windows, it leaves tbw_processor and the loop
AbortBatch ==
    /\ batch_pc = "running"
    /\ pc = "error"
    /\ batch_pc' = "aborted"
    /\ UNCHANGED <<file_list, file_idx, options, file_options, results_df>>
    /\ UNCHANGED <<pc, real_time, window_chan, window_size, window_step,
                   max_dt, squeeze_time, integrated_window, window_start_idx,
                   window_end_idx, window_start_time, windows, incs, data,
                   integrate_chans, data_chans, scaling_dict,
                   integrated_data, chan_out, nan_at, returned>>
    /\ UNCHANGED <<prepVars, binVars>>

\* cti_process_TBW.py line 539: the list is exhausted
EndBatch ==
    /\ batch_pc = "next"
    /\ file_idx = Len(file_list)
    /\ batch_pc' = "finished"
    /\ UNCHANGED <<file_list, file_idx, options, file_options, results_df>>
    /\ UNCHANGED <<pc, real_time, window_chan, window_size, window_step,
                   max_dt, squeeze_time, integrated_window, window_start_idx,
                   window_end_idx, window_start_time, windows, incs, data,
                   integrate_chans, data_chans, scaling_dict,
                   integrated_data, chan_out, nan_at, returned>>
    /\ UNCHANGED <<prepVars, binVars>>

NextBatch ==
    Next \/ StartFile \/ FinishFile \/ AbortBatch \/ EndBatch

Spec == Init /\ [][Next]_vars

\* calls with any parameters, the ones the contract excludes included
InitAny ==
    \E k \in 0..MaxN :
      \E t \in SortedTimes(k), w \in Weights(k) :
        \E size \in (-1)..MaxSize, step \in (-1)..MaxStep, dt \in (-1)..MaxDt :
          AtCall(t, w, size, step, dt)

SpecAny == InitAny /\ [][Next]_vars

\* unit-spaced timestamps 0..k-1, window channel 1 everywhere, max_dt = 1,
\* window_size = window_step
InitTile ==
    \E k \in 0..MaxTileN, size \in 1..MaxTileK :
        AtCall([i \in 1..k |-> i - 1], [i \in 1..k |-> 1], size, size, 1)

SpecTile == InitTile /\ [][Next]_vars

\* timestamps with gaps: a first timestamp in 0..MaxFirst, then steps of
\* 0, 1 or 8..MaxGap seconds
GapTimes(k) ==
    {cumsum(d) : d \in {e \in [1..k -> 0..MaxGap] :
                          /\ k >= 1 => e[1] <= MaxFirst
                          /\ \A i \in 2..k : e[i] <= 1 \/ e[i] >= 8}}

\* calls on series with time gaps, window channel 1 everywhere
InitGap ==
    \E k \in 0..MaxGapN :
      \E t \in GapTimes(k) :
        \E size \in 1..MaxSize, step \in 1..MaxStep, dt \in 1..MaxDt :
          AtCall(t, [i \in 1..k |-> 1], size, step, dt)

SpecGap == InitGap /\ [][Next]_vars

\* calls with one integrate channel ChanC, scaled or not, window channel 1
InitIntegrate ==
    \E k \in 0..MaxChanN :
      \E t \in SortedTimes(k), c \in [1..k -> {-1} \cup 1..MaxChan] :
        \E scaling \in {NoColumns} \cup {[x \in {ChanC} |-> m] : m \in 2..MaxScale} :
          \E size \in 1..MaxSize, step \in 1..MaxStep, dt \in 1..MaxDt :
            AtCallData(t, [i \in 1..k |-> 1], [x \in {ChanC} |-> c],
                       <<ChanC>>, <<>>, scaling, size, step, dt)

SpecIntegrate == InitIntegrate /\ [][Next]_vars

\* values of the statistic channel
StatValues == {5, 7, 9}

\* calls with one statistic channel ChanD, window channel 1
InitStatistic ==
    \E k \in 0..MaxChanN :
      \E t \in SortedTimes(k), d \in [1..k -> StatValues] :
        \E size \in 1..MaxSize, step \in 1..MaxStep, dt \in 1..MaxDt :
          AtCallData(t, [i \in 1..k |-> 1], [x \in {ChanD} |-> d],
                     <<>>, <<ChanD>>, NoColumns, size, step, dt)

SpecStatistic == InitStatistic /\ [][Next]_vars

\* calls repeated on the same data object
SpecRepeat == InitIntegrate /\ [][NextRepeat]_vars

\* calls that name a statistic channel ChanD that data does not have
InitMissing ==
    \E k \in 0..MaxN :
      \E t \in SortedTimes(k), w \in Weights(k) :
        \E size \in 1..MaxSize, step \in 1..MaxStep, dt \in 1..MaxDt :
          AtCallData(t, w, NoColumns, <<>>, <<ChanD>>, NoColumns,
                     size, step, dt)

SpecMissing == InitMissing /\ [][Next]_vars

\* calls whose window channel is 1 except for NaN at the samples nan_at
InitNaN ==
    \E k \in 1..MaxNanN :
      \E t \in SortedTimes(k), nans \in (SUBSET (0..(k - 1))) \ {{}} :
        \E size \in 1..MaxSize, step \in 1..MaxStep, dt \in 1..MaxDt :
          /\ FirstCall(t, [i \in 1..k |-> IF (i - 1) \in nans THEN 0 ELSE 1],
                       NoColumns, <<>>, <<>>, NoColumns, size, step, dt)
          /\ nan_at = nans
          /\ OthersIdle

SpecNaN == InitNaN /\ [][Next]_vars

\* the characters of the channel names of InitNaming
NameChars == {"/", "s", "m"}

\* the names of at most k characters
Names(k) == UNION {[1..j -> NameChars] : j \in 1..k}

\* the series of InitNaming: NamingN samples one second apart, every
\* column 1
NamingN == 3

\* calls with two integrate channels of distinct names
InitNaming ==
    \E a \in Names(MaxNameLen), b \in Names(MaxNameLen) :
      /\ a # b
      /\ AtCallData([i \in 1..NamingN |-> i - 1], [i \in 1..NamingN |-> 1],
                    [x \in {a, b} |-> [i \in 1..NamingN |-> 1]],
                    <<a, b>>, <<>>, NoColumns, 1, 1, 1)

SpecNaming == InitNaming /\ [][Next]_vars

\* ---- prep_calcs_dataframe: the time column -------------------------------
\* the median of an even number of values has a half: times are kept
\* multiplied by PrepScale, and every pass of the wrap loop can halve once
PrepScale == 2 ^ MaxPrepN

\* seconds of a day
DayLen == 24 * 3600

\* the HHMMSS value of the time of day x (in seconds)
ToClock(x) ==
    (x \div 3600) * 10000 + ((x % 3600) \div 60) * 100 + (x % 60)

\* cti_common.py lines 110-113: the seconds of an HHMMSS value
ParseClock(x) ==
    LET time_hrs_x1000 == (x \div 10000) * 10000
        time_mins_x100 == ((x - time_hrs_x1000) \div 100) * 100
        secs == x - time_hrs_x1000 - time_mins_x100
    IN  (time_hrs_x1000 \div 10000) * 3600 + (time_mins_x100 \div 100) * 60
            + secs

\* numpy.diff(a)
npdiff(a) == [i \in 1..(Len(a) - 1) |-> a[i + 1] - a[i]]

\* the k-th smallest value of a
Kth(a, k) ==
    CHOOSE x \in Range(a) :
        /\ Cardinality({i \in 1..Len(a) : a[i] < x}) < k
        /\ k <= Cardinality({i \in 1..Len(a) : a[i] <= x})

\* numpy.nanmedian(a) of numbers
nanmedian(a) ==
    IF Len(a) % 2 = 1
    THEN Kth(a, (Len(a) + 1) \div 2)
    ELSE (Kth(a, Len(a) \div 2) + Kth(a, Len(a) \div 2 + 1)) \div 2

\* cti_common.py lines 108-116: parse the HHMMSS column and start at zero;
\* time[0] of an empty column raises
PrepParse ==
    /\ prep_pc = "start"
    /\ time_base = "base60"
    /\ IF Len(raw_time) = 0
       THEN /\ prep_pc' = "error"
            /\ UNCHANGED time
       ELSE /\ time' = [i \in 1..Len(raw_time) |->
                          (ParseClock(raw_time[i]) - ParseClock(raw_time[1]))
                              * PrepScale]
            /\ prep_pc' = "wrap"
    /\ time_wrap' = 0
    /\ prep_t' = 0
    /\ UNCHANGED <<time_base, data_rate_Hz, raw_time, time_secs>>
    /\ UNCHANGED <<fwVars, batchVars, binVars>>

\* cti_common.py lines 117-123: one pass of the wrap loop, or its end
PrepWrapStep ==
    /\ prep_pc = "wrap"
    /\ IF prep_t < Len(time) - 1
       THEN /\ time_wrap' =
                   IF time[prep_t + 2] < time[prep_t + 1]
                   THEN time[prep_t + 1] - time[prep_t + 2]
                            + nanmedian(npdiff(time))
                   ELSE time_wrap
            /\ time' = [time EXCEPT ![prep_t + 2] = @ + time_wrap']
            /\ prep_t' = prep_t + 1
            /\ UNCHANGED prep_pc
       ELSE /\ prep_pc' = "squeeze"
            /\ UNCHANGED <<time, prep_t, time_wrap>>
    /\ UNCHANGED <<time_base, data_rate_Hz, raw_time, time_secs>>
    /\ UNCHANGED <<fwVars, batchVars, binVars>>

\* cti_common.py lines 124-129: subtract the value at index label 1;
\* .loc[1] of a column of fewer than two rows raises
PrepOffset ==
    /\ prep_pc = "start"
    /\ time_base = "base1"
    /\ IF Len(raw_time) < 2
       THEN /\ prep_pc' = "error"
            /\ UNCHANGED time
       ELSE /\ time' = [i \in 1..Len(raw_time) |->
                          (raw_time[i] - raw_time[2]) * PrepScale]
            /\ prep_pc' = "squeeze"
    /\ UNCHANGED <<time_base, data_rate_Hz, raw_time, prep_t, time_wrap,
                   time_secs>>
    /\ UNCHANGED <<fwVars, batchVars, binVars>>

\* cti_common.py lines 132-133: eliminate time jumps
PrepSqueeze ==
    /\ prep_pc = "squeeze"
    /\ time_secs' = cumsum(minimum(PrepScale \div data_rate_Hz, diff(time)))
    /\ prep_pc' = "done"
    /\ UNCHANGED <<time_base, data_rate_Hz, raw_time, time, prep_t,
                   time_wrap>>
    /\ UNCHANGED <<fwVars, batchVars, binVars>>

NextPrep == PrepParse \/ PrepWrapStep \/ PrepOffset \/ PrepSqueeze

\* the strictly increasing times of k samples that start shortly before
\* midnight, in seconds
ClockTimes(k) ==
    IF k = 0 THEN {<<>>}
    ELSE {cumsum(<<first>> \o d) :
             first \in (DayLen - MaxBefore)..(DayLen - 1),
             d \in [1..(k - 1) -> 1..MaxDelta]}

\* the time column of a file: seconds for base1, the HHMMSS value of the
\* time of day for base60
RawTime(base, t) ==
    [i \in 1..Len(t) |-> IF base = "base60" THEN ToClock(t[i] % DayLen)
                         ELSE t[i]]

InitPrep ==
    /\ prep_pc = "start"
    /\ time_base \in {"base1", "base60"}
    /\ data_rate_Hz \in {1, 2}
    /\ \E k \in 0..MaxPrepN : \E t \in ClockTimes(k) :
           raw_time = RawTime(time_base, t)
    /\ time = <<>>
    /\ prep_t = 0
    /\ time_wrap = 0
    /\ time_secs = <<>>
    /\ FwIdle
    /\ BatchIdle
    /\ BinIdle

SpecPrep == InitPrep /\ [][NextPrep]_vars

\* ---- tbw_processor: the bins ----------------------------------------------
\* Cutpoints and normalised CO2 rates are counted in units of 0.02 percent
\* (CutUnit ten-thousandths of a percent), so that no value is half way
\* between two tenths of a percent.
CutUnit == 200

\* '%.1f' % (frac * 100): the tenths of a percent nearest to c units
Tenth(c) == (c * CutUnit + 500) \div 1000

\* cti_process_TBW.py line 309: '%.1f->%.1f'
BinName(prev, cut) == <<"->", Tenth(prev), Tenth(cut)>>

\* cti_process_TBW.py line 315: '>%.1f'
LastBinName(prev) == <<">", Tenth(prev), Tenth(prev)>>

\* cti_process_TBW.py lines 310-311: the windows above lo and up to hi
RowsBetween(lo, hi) ==
    {i \in 1..Len(norms) : norms[i] > lo /\ norms[i] <= hi}

\* cti_process_TBW.py line 316: the windows above lo
RowsAbove(lo) == {i \in 1..Len(norms) : norms[i] > lo}

\* bins[name] = rows
Assign(d, name, rows) ==
    [k \in DOMAIN d \cup {name} |-> IF k = name THEN rows ELSE d[k]]

\* cti_process_TBW.py lines 308-313: one pass of the loop over the
\* cutpoints
BinStep ==
    /\ bin_pc = "bins"
    /\ cut_idx < Len(hp_cutpoints_frac)
    /\ LET cutpoint_frac == hp_cutpoints_frac[cut_idx + 1] IN
         /\ bins' = Assign(bins, BinName(previous_bin_frac, cutpoint_frac),
                           RowsBetween(previous_bin_frac, cutpoint_frac))
         /\ previous_bin_frac' = cutpoint_frac
    /\ cut_idx' = cut_idx + 1
    /\ UNCHANGED <<bin_pc, hp_cutpoints_frac, norms, bin_results>>
    /\ UNCHANGED <<fwVars, batchVars, prepVars>>

\* cti_process_TBW.py lines 315-317: the bin above the last cutpoint
BinLast ==
    /\ bin_pc = "bins"
    /\ cut_idx = Len(hp_cutpoints_frac)
    /\ bins' = Assign(bins, LastBinName(previous_bin_frac),
                      RowsAbove(previous_bin_frac))
    /\ bin_pc' = "count"
    /\ UNCHANGED <<hp_cutpoints_frac, norms, previous_bin_frac, cut_idx,
                   bin_results>>
    /\ UNCHANGED <<fwVars, batchVars, prepVars>>

\* cti_process_TBW.py lines 336-339: the window count of every bin
BinCount ==
    /\ bin_pc = "count"
    /\ bin_results' = [k \in DOMAIN bins |-> Cardinality(bins[k])]
    /\ bin_pc' = "done"
    /\ UNCHANGED <<hp_cutpoints_frac, norms, bins, previous_bin_frac,
                   cut_idx>>
    /\ UNCHANGED <<fwVars, batchVars, prepVars>>

NextBin == BinStep \/ BinLast \/ BinCount

\* strictly increasing positive cutpoints
Cutpoints ==
    {c \in UNION {[1..j -> 1..MaxCut] : j \in 1..MaxCuts} :
        \A i \in 1..(Len(c) - 1) : c[i] < c[i + 1]}

InitBin ==
    /\ bin_pc = "bins"
    /\ hp_cutpoints_frac \in Cutpoints
    /\ norms \in UNION {[1..k -> 0..MaxNorm] : k \in 0..MaxBinWindows}
    /\ bins = NoColumns
    /\ previous_bin_frac = 0
    /\ cut_idx = 0
    /\ bin_results = NoColumns
    /\ FwIdle
    /\ BatchIdle
    /\ PrepIdle

SpecBin == InitBin /\ [][NextBin]_vars

\* the files of a batch
Files ==
    [rating : 1..MaxRating, hhd : BOOLEAN,
     work : {"ok", "nan", "negative"}, len : 2..MaxFileLen]

\* the lists of at most k files
FileLists(k) == UNION {[1..j -> Files] : j \in 0..k}

\* the options of a batch: a profile that takes the rating from the file
\* name or one that holds it, a step of one second or of the longest file
BatchOptions ==
    [data_profile :
         [from_name : {TRUE}, units : {"KW", "HP"}, rating : {0}]
         \cup [from_name : {FALSE}, units : {"KW", "HP"}, rating : {1}],
     ftp_co2_gphphr : {[kind |-> "empty", v |-> 0],
                       [kind |-> "text", v |-> FtpOther + 1]},
     window_step_secs : {1, MaxFileLen}]

\* the batch loop before its first file
InitBatch ==
    /\ batch_pc = "next"
    /\ file_list \in FileLists(MaxFiles)
    /\ file_idx = 0
    /\ options \in BatchOptions
    /\ file_options = NoOptions
    /\ results_df = <<>>
    /\ FwIdle
    /\ PrepIdle
    /\ BinIdle

SpecBatch == InitBatch /\ [][NextBatch]_vars

\* the search runs to its end: every step that can be taken is taken
FairSpec == Spec /\ WF_vars(Next)

\* ---- properties -----------------------------------------------------------
LastRow == windows[Len(windows)]

\* C1: size floor.  For window_size > 0 and window_step > 0 every row of
\* the table except possibly the last has an achieved size of at least
\* window_size (at every point of the scan, hence in the returned table).
C1_SizeFloor ==
    (window_size > 0 /\ window_step > 0) =>
        \A k \in 1..(Len(windows) - 1) :
            windows[k].window_size >= Twice * window_size

\* a returned table of a valid call with a full window followed by a
\* shorter last one
C1_Witness ==
    /\ pc = "done"
    /\ window_size > 0 /\ window_step > 0
    /\ Len(windows) >= 2
    /\ windows[1].window_size >= Twice * window_size
    /\ LastRow.window_size < Twice * window_size

\* C2: monotone progress.  No step of find_windows decreases
\* window_end_idx, the end indices of the recorded rows never decrease from
\* one row to the next, and line 110 runs at most n-1 times in a call on n
\* samples (never on an empty series).
C2_MonotoneProgress ==
    [][ /\ window_end_idx' >= window_end_idx
        /\ \A k \in 1..(Len(windows') - 1) :
               windows'[k + 1].end_idx >= windows'[k].end_idx
        /\ incs' <= Max(n - 1, 0) ]_vars

\* a finished scan that used all n-1 increments and whose second window
\* ends after its first
C2_Witness ==
    /\ pc = "done"
    /\ n >= 3
    /\ incs = n - 1
    /\ Len(windows) >= 2
    /\ windows[2].end_idx > windows[1].end_idx

\* C3: trailing partial window.  When find_windows returns on a series of
\* at least 2 samples (parameters > 0), the table is not empty and its last
\* row ends at the last sample index n-1, whatever its achieved size.
C3_TrailingWindow ==
    (pc = "done" /\ n >= 2) =>
        /\ Len(windows) >= 1
        /\ LastRow.end_idx = n - 1

\* a returned table whose last row ends at n-1 below the requested size
C3_Witness ==
    /\ pc = "done"
    /\ n >= 2
    /\ Len(windows) >= 1
    /\ LastRow.end_idx = n - 1
    /\ LastRow.start_idx < n - 1
    /\ LastRow.window_size < Twice * window_size

\* C4: termination.  With parameters > 0 and a non-decreasing series (here:
\* of at least 2 samples, the calls that enter the search loop) the call
\* eventually returns its table.
C4_Terminates == (pc = "call" /\ n >= 2) ~> (pc = "done")

\* C5: parameter validation.  A call with window_size <= 0,
\* window_step <= 0 or max_dt <= 0 is rejected before the scan: it never
\* reaches the search loop and appends no row.
C5_RejectsBadParams ==
    (window_size <= 0 \/ window_step <= 0 \/ max_dt <= 0) =>
        /\ pc \in {"call", "error"}
        /\ windows = <<>>

\* C6: scan stop at the end of the series.  The start index with which the
\* time and integral arrays are read is always within 0..n-1.
C6_StartIdxInRange ==
    pc \in {"advance", "check"} => window_start_idx \in 0..(n - 1)

\* C7: empty input.  On a series of 0 or 1 samples find_windows makes no
\* scan iteration, raises no error and its table has no row.
C7_EmptyInput ==
    n <= 1 =>
        /\ pc \in {"call", "while", "done"}
        /\ windows = <<>>

\* C8: table size bound.  For window_size > 0 and window_step > 0 the
\* table never holds more rows than the series has samples.
C8_TableBound ==
    (window_size > 0 /\ window_step > 0) => Len(windows) <= n

\* a returned table of n-1 rows
C8_Witness ==
    /\ pc = "done"
    /\ window_size > 0 /\ window_step > 0
    /\ n >= 3
    /\ Len(windows) = n - 1

\* C9: window well-formedness.  For window_size > 0 every recorded row has
\* start_idx <= end_idx, end_time >= start_time and duration >= 0.
C9_WellFormed ==
    window_size > 0 =>
        \A k \in 1..Len(windows) :
            /\ windows[k].start_idx <= windows[k].end_idx
            /\ windows[k].end_time >= windows[k].start_time
            /\ windows[k].duration >= 0

\* a row recorded after the start index had moved past the end index of
\* the row before it
C9_Witness ==
    /\ window_size > 0
    /\ Len(windows) >= 2
    /\ LastRow.start_idx > windows[Len(windows) - 1].end_idx
    /\ LastRow.start_idx <= LastRow.end_idx

RECURSIVE SumSizes(_)
SumSizes(rows) ==
    IF rows = <<>> THEN 0
    ELSE rows[1].window_size + SumSizes(Tail(rows))

TileInput ==
    /\ real_time = [i \in 1..n |-> i - 1]
    /\ window_chan = [i \in 1..n |-> 1]
    /\ max_dt = 1
    /\ window_size = window_step
    /\ window_size > 0

Triple(row) == <<row.start_idx, row.end_idx, row.window_size>>

\* C10: exact tiling.  On unit-spaced timestamps 0..n-1 with a window
\* channel of 1, max_dt = 1 and window_size = window_step = k > 0, the
\* returned table starts at index 0, every next row starts at the end index
\* of the row before it, and the achieved sizes sum to
\* integrated_window[n-1]; for n = 6, k = 2 the rows are (0,2,size 2),
\* (2,4,size 2), (4,5,size 1).
C10_ExactTiling ==
    (pc = "done" /\ TileInput) =>
        /\ Len(windows) >= 1 => windows[1].start_idx = 0
        /\ \A k \in 1..(Len(windows) - 1) :
               windows[k + 1].start_idx = windows[k].end_idx
        /\ SumSizes(windows) = At(integrated_window, n - 1)
        /\ (n = 6 /\ window_size = 2) =>
               [k \in 1..Len(windows) |-> Triple(windows[k])] =
                   << <<0, 2, Twice * 2>>, <<2, 4, Twice * 2>>,
                      <<4, 5, Twice * 1>> >>

\* the returned table of the call with n = 6, k = 2
C10_Witness ==
    /\ pc = "done"
    /\ TileInput
    /\ n = 6
    /\ window_size = 2
    /\ Len(windows) = 3

Scanning == pc \in {"while", "search", "advance", "check", "done"}

\* C11: gap collapsing.  After the set-up the squeezed axis has the length
\* of the raw one, squeezed[0] = min(max_dt, time[0]) (so it is not
\* re-based to zero when time[0] > max_dt) and every later step is
\* min(max_dt, raw step); for time = [0,1,2,10,11] and max_dt = 1 it is
\* [0,1,2,3,4].
C11_GapCollapsing ==
    Scanning =>
        /\ Len(squeeze_time) = n
        /\ squeeze_time[1] = Min(max_dt, real_time[1])
        /\ \A i \in 2..n :
               squeeze_time[i] - squeeze_time[i - 1] =
                   Min(max_dt, real_time[i] - real_time[i - 1])
        /\ (real_time = <<0, 1, 2, 10, 11>> /\ max_dt = 1) =>
               squeeze_time = <<0, 1, 2, 3, 4>>

\* the series of the example after the set-up
C11_Witness ==
    /\ Scanning
    /\ real_time = <<0, 1, 2, 10, 11>>
    /\ max_dt = 1
    /\ squeeze_time = <<0, 1, 2, 3, 4>>

\* C12: squeezed time is monotonic.  For max_dt > 0 (raw time
\* non-decreasing) the squeezed axis never decreases and each of its steps
\* is at most max_dt.
C12_SqueezedMonotonic ==
    (Scanning /\ max_dt > 0) =>
        \A i \in 1..(n - 1) :
            /\ squeeze_time[i + 1] >= squeeze_time[i]
            /\ squeeze_time[i + 1] - squeeze_time[i] <= max_dt

\* a squeezed axis with a capped raw gap and a step of zero
C12_Witness ==
    /\ Scanning
    /\ max_dt > 0
    /\ \E i \in 1..(n - 1) :
           /\ real_time[i + 1] - real_time[i] > max_dt
           /\ squeeze_time[i + 1] - squeeze_time[i] = max_dt
    /\ \E i \in 1..(n - 1) : squeeze_time[i + 1] = squeeze_time[i]

\* C13: the weight integral is a progress measure.  integrated_window[0]
\* is 0 and integrated_window never decreases, negative window channel
\* values included.
C13_IntegralMonotonic ==
    Scanning =>
        /\ integrated_window[1] = 0
        /\ \A i \in 1..(n - 1) :
               integrated_window[i + 1] >= integrated_window[i]

\* an integral that grows on a window channel with a negative value
C13_Witness ==
    /\ Scanning
    /\ \E i \in 1..n : window_chan[i] < 0
    /\ \E i \in 1..(n - 1) :
           /\ window_chan[i] < 0 \/ window_chan[i + 1] < 0
           /\ integrated_window[i + 1] > integrated_window[i]

\* C14: recorded window times are on the squeezed axis.  Every row has
\* start_time = squeeze_time[start_idx], end_time = squeeze_time[end_idx]
\* and duration = end_time - start_time, so with a window channel of 1 the
\* duration equals the achieved size.
C14_SqueezedTimes ==
    \A k \in 1..Len(windows) :
        /\ windows[k].start_time = At(squeeze_time, windows[k].start_idx)
        /\ windows[k].end_time = At(squeeze_time, windows[k].end_idx)
        /\ windows[k].duration =
               windows[k].end_time - windows[k].start_time
        /\ (\A i \in 1..n : window_chan[i] = 1) =>
               Twice * windows[k].duration = windows[k].window_size

\* the first 0-based index of a whose element is >= v, Len(a) if none
FirstAtLeast(a, v) ==
    IF \E i \in 1..Len(a) : a[i] >= v
    THEN (CHOOSE i \in 1..Len(a) :
              /\ a[i] >= v
              /\ \A j \in 1..(i - 1) : a[j] < v) - 1
    ELSE Len(a)

\* C15: start search.  In every iteration after the first the new start
\* index is the smallest i with squeeze_time[i] >= s + window_step, s the
\* squeezed start time of the row recorded before.
C15_StartSearch ==
    (pc = "advance" /\ windows # <<>>) =>
        window_start_idx =
            FirstAtLeast(squeeze_time,
                         At(squeeze_time, LastRow.start_idx) + window_step)

\* C16: discovery order.  Rows are only ever added at the end of the
\* table, and for window_step > 0 the start index strictly increases from
\* each row to the next.
C16_DiscoveryOrder ==
    [][ /\ \/ windows' = windows
           \/ /\ Len(windows') = Len(windows) + 1
              /\ SubSeq(windows', 1, Len(windows)) = windows
        /\ window_step > 0 =>
               \A k \in 1..(Len(windows') - 1) :
                   windows'[k + 1].start_idx > windows'[k].start_idx ]_vars

\* a returned table of three rows
C16_Witness ==
    /\ pc = "done"
    /\ window_step > 0
    /\ Len(windows) >= 3
    /\ windows[1].start_idx < windows[2].start_idx
    /\ windows[2].start_idx < windows[3].start_idx

\* Twice the trapezoid sum of v against sq over the samples s..e
RECURSIVE WindowTrap(_, _, _, _)
WindowTrap(v, sq, s, e) ==
    IF e <= s THEN 0
    ELSE WindowTrap(v, sq, s, e - 1)
         + (At(v, e) + At(v, e - 1)) * (At(sq, e) - At(sq, e - 1))

\* C17: per-window totals.  For every integrate channel c,
\* integrated_data[c] is 0 at index 0 and grows by the trapezoid of the
\* signed values of c against squeezed time, and the total of every row is
\* integrated_data[c][end_idx] - integrated_data[c][start_idx], the signed
\* trapezoid sum over the samples of the window.
C17_WindowTotals ==
    Scanning =>
        \A c \in Range(integrate_chans) :
            /\ At(integrated_data[c], 0) = 0
            /\ \A i \in 1..(n - 1) :
                   At(integrated_data[c], i) =
                       WindowTrap(data[c], squeeze_time, 0, i)
            /\ \A k \in 1..Len(windows) :
                   /\ windows[k].totals[c] =
                          At(integrated_data[c], windows[k].end_idx)
                          - At(integrated_data[c], windows[k].start_idx)
                   /\ windows[k].totals[c] =
                          WindowTrap(data[c], squeeze_time,
                                     windows[k].start_idx, windows[k].end_idx)

\* a row with a negative total next to a row with a positive one
C17_Witness ==
    /\ pc = "done"
    /\ integrate_chans = <<ChanC>>
    /\ \E k \in 1..Len(windows) : windows[k].totals[ChanC] < 0
    /\ \E k \in 1..Len(windows) : windows[k].totals[ChanC] > 0

\* the values of column col at the samples s..e
SamplesOf(col, s, e) == {At(col, i) : i \in s..e}

RECURSIVE SumOf(_, _, _)
SumOf(col, s, e) == IF e < s THEN 0 ELSE SumOf(col, s, e - 1) + At(col, e)

\* C18: per-window statistics.  For every row and statistic channel, MIN,
\* MAX and AVG are the least value, the greatest value and the arithmetic
\* mean of the column at exactly the samples start_idx..end_idx; for the
\* values 5, 7, 9 they are 5, 9, 7 and SD is 2 (SD is kept as its square).
C18_WindowStatistics ==
    \A k \in 1..Len(windows) : \A d \in Range(data_chans) :
        LET row == windows[k]
            st == row.stats[d]
            vals == SamplesOf(data[d], row.start_idx, row.end_idx)
            cnt == row.end_idx - row.start_idx + 1
        IN  /\ ~st.MIN.nan /\ st.MIN.den = 1 /\ st.MIN.num \in vals
            /\ \A x \in vals : st.MIN.num <= x
            /\ ~st.MAX.nan /\ st.MAX.den = 1 /\ st.MAX.num \in vals
            /\ \A x \in vals : st.MAX.num >= x
            /\ ~st.AVG.nan
            /\ st.AVG.num * cnt =
                   st.AVG.den * SumOf(data[d], row.start_idx, row.end_idx)
            /\ (/\ cnt = 3
                /\ At(data[d], row.start_idx) = 5
                /\ At(data[d], row.start_idx + 1) = 7
                /\ At(data[d], row.end_idx) = 9) =>
                   /\ st.MIN.num = 5
                   /\ st.MAX.num = 9
                   /\ st.AVG.num = 7 * st.AVG.den
                   /\ ~st.SD.nan
                   /\ st.SD.num = (2 * 2) * st.SD.den

\* a row over three samples with the values 5, 7, 9
C18_Witness ==
    /\ data_chans = <<ChanD>>
    /\ \E k \in 1..Len(windows) :
           /\ windows[k].end_idx = windows[k].start_idx + 2
           /\ At(data[ChanD], windows[k].start_idx) = 5
           /\ At(data[ChanD], windows[k].start_idx + 1) = 7
           /\ At(data[ChanD], windows[k].end_idx) = 9
           /\ windows[k].stats[ChanD].AVG.num = 7 * windows[k].stats[ChanD].AVG.den

\* C19: single-sample window.  A window with start_idx = end_idx that is
\* found valid gets its row, and the SD of every statistic channel in a
\* row over one sample is not-a-number.
C19_SingleSampleSD ==
    [][ /\ (/\ pc = "check"
            /\ pc' = "while"
            /\ window_start_idx = window_end_idx) =>
               /\ Len(windows') = Len(windows) + 1
               /\ windows'[Len(windows')].start_idx = window_start_idx
               /\ windows'[Len(windows')].end_idx = window_end_idx
        /\ \A k \in 1..Len(windows') : \A d \in Range(data_chans) :
               windows'[k].start_idx = windows'[k].end_idx =>
                   windows'[k].stats[d].SD.nan ]_vars

\* a last row made of the last sample alone, its SD not-a-number
C19_Witness ==
    /\ pc = "done"
    /\ data_chans = <<ChanD>>
    /\ Len(windows) >= 2
    /\ LastRow.start_idx = n - 1
    /\ LastRow.end_idx = n - 1
    /\ LastRow.stats[ChanD].SD.nan
    /\ ~LastRow.stats[ChanD].AVG.nan

\* C20: the input is read-only.  No step of find_windows changes a column
\* of the caller's data frame or adds a column to it.
C20_InputReadOnly ==
    [][ /\ real_time' = real_time
        /\ window_chan' = window_chan
        /\ data' = data ]_vars


\* C21: repeatable result.  A second call of find_windows with the same
\* data object and the same parameters returns a table equal to the table
\* of the first call.
C21_Repeatable ==
    (pc = "done" /\ returned # <<>>) => windows = returned[1]

\* C22: missing statistic channel.  When a name of data_chans is not a
\* column of data, the call is in its error outcome before the scan loop
\* is entered, for every length of the series.
C22_MissingChannel ==
    MissingStat => pc \in {"call", "error"} /\ windows = <<>>

\* C23: malformed weight data.  With NaN at some sample of the window
\* channel the call ends in the error outcome: no table is returned.
C23_NaNWeight ==
    nan_at # {} => pc # "done"

\* C24: unambiguous output names.  Distinct integrate channels have
\* distinct output names, and the returned table has one integral column
\* per integrate channel.
C24_UnambiguousNames ==
    DOMAIN chan_out # {} =>
        /\ \A i, j \in 1..Len(integrate_chans) :
               integrate_chans[i] # integrate_chans[j] =>
                   chan_out[integrate_chans[i]] # chan_out[integrate_chans[j]]
        /\ Cardinality(OutColumns) = Len(integrate_chans)

\* C25: partial-failure batch.  The batch loop only stops when no file
\* of the list remains: a failure of one file does not keep the files
\* after it from being processed.
C25_PartialFailure ==
    /\ batch_pc = "finished" => file_idx = Len(file_list)
    /\ batch_pc = "aborted" => file_idx + 1 = Len(file_list)

\* C26: first window anchor.  For window_step > 0 the first row of a
\* table that is not empty starts at sample index 0.
C26_FirstAnchor ==
    (window_step > 0 /\ windows # <<>>) => windows[1].start_idx = 0

\* a returned table of two rows found with a step of more than one second
C26_Witness ==
    /\ pc = "done"
    /\ window_step > 1
    /\ Len(windows) >= 2
    /\ windows[1].start_idx = 0
    /\ windows[2].start_idx > 0

\* C28: the shared profile is not modified.  With a profile that takes
\* the rating from the file name no step changes the shared options, and
\* every file is processed with the rating of its own name.
C28_SharedProfile ==
    [][options.data_profile.from_name =>
          /\ options' = options
          /\ (batch_pc = "next" /\ file_idx < Len(file_list)) =>
                 /\ file_options'.data_profile.rating =
                        file_list[file_idx + 1].rating
                 /\ ~file_options'.data_profile.from_name]_vars

\* a second file with another rating than the first is being processed
C28_Witness ==
    /\ options.data_profile.from_name
    /\ batch_pc = "running"
    /\ file_idx = 1
    /\ file_list[1].rating # file_list[2].rating
    /\ file_options.data_profile.rating = file_list[2].rating
    /\ options.ftp_co2_gphphr.kind = "empty"
\* the seconds of the raw time column
RawSecs(i) ==
    IF time_base = "base60" THEN ParseClock(raw_time[i]) ELSE raw_time[i]

\* C27: zero-based time.  The time_secs column made from strictly
\* increasing raw times starts at 0, for base1 and for base60.
C27_ZeroBased ==
    prep_pc = "done" => time_secs[1] = 0

\* the sample before the rollover of the raw column, 0 without rollover
Rollover ==
    IF \E i \in 1..(Len(raw_time) - 1) : RawSecs(i + 1) < RawSecs(i)
    THEN CHOOSE i \in 1..(Len(raw_time) - 1) : RawSecs(i + 1) < RawSecs(i)
    ELSE 0

\* C29: midnight rollover.  After the wrap loop the base60 time is
\* non-decreasing, and all samples after the rollover are shifted by one
\* offset: two consecutive ones are as far apart as in the raw column.
C29_RolloverSpacing ==
    (time_base = "base60" /\ prep_pc \in {"squeeze", "done"}
        /\ Rollover > 0) =>
        /\ \A i \in 1..(Len(time) - 1) : time[i] <= time[i + 1]
        /\ \A i \in (Rollover + 1)..(Len(time) - 1) :
               time[i + 1] - time[i] =
                   (RawSecs(i + 1) - RawSecs(i)) * PrepScale
\* the sum of the counts of the bins named in S
RECURSIVE CountSum(_)
CountSum(S) ==
    IF S = {} THEN 0
    ELSE LET k == CHOOSE x \in S : TRUE
         IN  bin_results[k] + CountSum(S \ {k})

\* C30: the bins partition the windows.  Every window with a normalised
\* CO2 rate above 0 is in exactly one bin, and the window counts of the
\* bins add up to the number of these windows.
C30_BinsPartition ==
    bin_pc = "done" =>
        /\ \A i \in 1..Len(norms) :
               norms[i] > 0 =>
                   Cardinality({k \in DOMAIN bins : i \in bins[k]}) = 1
        /\ CountSum(DOMAIN bin_results) =
               Cardinality({i \in 1..Len(norms) : norms[i] > 0})
====
